---- MODULE Spec2Model ----
(***************************************************************************)
(* Model of src/main.py: a byte-level diff (weighted edit distance, path   *)
(* reconstruction, 6-byte patch records) and the patch replay loop.        *)
(*                                                                         *)
(* Two specifications:                                                     *)
(*   Spec       the module-level driver (lines 127-132): calculate_diff    *)
(*              on two files, then apply_patch on the diff it wrote;       *)
(*   ApplySpec  apply_patch called on an arbitrary original file and an    *)
(*              arbitrary patch file.                                      *)
(* Bytes are integers 0..255, files are sequences of bytes.                *)
(***************************************************************************)
EXTENDS Integers, Sequences, FiniteSets, TLC

VARIABLES old_data,   \* contents of the original file
          new_data,   \* contents of the target file
          distance,   \* table returned by levenstein_distance (list of rows)
          path,       \* operations returned by edit_path
          diff,       \* contents of the patch file
          edits,      \* operations decoded by apply_patch
          data_i,     \* replay cursor into old_data
          edit_i,     \* replay cursor into edits
          out,        \* contents of the output file
          pc,         \* position of the program
          err         \* exception that ended the program, or "none"

vars == <<old_data, new_data, distance, path, diff, edits, data_i, edit_i, out, pc, err>>

\* ---------------------------------------------------------------- bounds
MaxLen == 3
MaxOldLen == 2
MaxEdits == 2
MaxLoc == 3

\* byte values the files are drawn from ('a', 'b', 'c')
Bytes == {97, 98, 99}
\* payload byte values of externally supplied patches ('x')
PatchBytes == {120}
\* tag bytes of externally supplied patches: the three opcodes and one invalid
PatchTags == {0, 1, 2, 3}
\* lengths of a truncated trailing record of an externally supplied patch
TailLens == {0, 1, 5}

RECURSIVE SeqsUpTo(_, _)
SeqsUpTo(S, n) ==
    IF n = 0 THEN {<<>>}
    ELSE LET shorter == SeqsUpTo(S, n - 1)
         IN  shorter \cup {Append(s, x) : s \in {t \in shorter : Len(t) = n - 1}, x \in S}

\* ------------------------------------------------------------- constants
INSERT_COST == 3
DELETE_COST == 3
REPLACE_COST == 2

INSERT == 0
DELETE == 1
REPLACE == 2

Distance(cost, prev_i, prev_j) == [cost |-> cost, prev_i |-> prev_i, prev_j |-> prev_j]

Operation(code, location, new_byte) == [code |-> code, location |-> location, new_byte |-> new_byte]

\* ------------------------------------------------------ python sequences
\* s[k] of a python sequence: negative k counts from the end
IndexOK(s, k) == k >= 0 - Len(s) /\ k < Len(s)

PyIndex(s, k) == s[(IF k < 0 THEN k + Len(s) ELSE k) + 1]

\* distance[i][j] for 0 <= i, 0 <= j
Cell(d, i, j) == d[i + 1][j + 1]

\* ----------------------------------------------------- levenstein_distance
\* min(a, b, c, key=lambda d: d.cost): the first argument of least cost
MinByCost(a, b, c) ==
    IF a.cost <= b.cost /\ a.cost <= c.cost THEN a
    ELSE IF b.cost <= c.cost THEN b
    ELSE c

\* InnerCell with the comparison of line 51 inverted (== for !=)
InnerCellInverted(s1, s2, prev, row, i, j) ==
    IF s1[i] = s2[j]
    THEN MinByCost(Distance(prev[j + 1].cost + DELETE_COST, i - 1, j),
                   Distance(row[j].cost + INSERT_COST, i, j - 1),
                   Distance(prev[j].cost + REPLACE_COST, i - 1, j - 1))
    ELSE Distance(prev[j].cost, i - 1, j - 1)

\* the value assigned to distance[i][j] for i >= 1, j >= 1; prev is row i-1
\* and row holds the cells 0..j-1 of row i
InnerCell(s1, s2, prev, row, i, j) ==
    IF s1[i] # s2[j]
    THEN MinByCost(Distance(prev[j + 1].cost + DELETE_COST, i - 1, j),
                   Distance(row[j].cost + INSERT_COST, i, j - 1),
                   Distance(prev[j].cost + REPLACE_COST, i - 1, j - 1))
    ELSE Distance(prev[j].cost, i - 1, j - 1)

\* row 0: for j in range(1, m + 1)
RECURSIVE FillRow0(_, _)
FillRow0(s2, row) ==
    IF Len(row) = Len(s2) + 1 THEN row
    ELSE LET j == Len(row)
         IN  FillRow0(s2, Append(row, Distance(row[j].cost + INSERT_COST, 0, j - 1)))

\* row i >= 1: for j in range(1, m + 1)
RECURSIVE FillRow(_, _, _, _, _)
FillRow(s1, s2, prev, i, row) ==
    IF Len(row) = Len(s2) + 1 THEN row
    ELSE LET j == Len(row)
         IN  FillRow(s1, s2, prev, i, Append(row, InnerCell(s1, s2, prev, row, i, j)))

\* for i in range(1, n + 1); d holds the rows 0..i-1
RECURSIVE FillRows(_, _, _)
FillRows(s1, s2, d) ==
    IF Len(d) = Len(s1) + 1 THEN d
    ELSE LET i == Len(d)
             first == Distance(d[i][1].cost + DELETE_COST, i - 1, 0)
         IN  FillRows(s1, s2, Append(d, FillRow(s1, s2, d[i], i, <<first>>)))

levenstein_distance(s1, s2) ==
    FillRows(s1, s2, <<FillRow0(s2, <<Distance(0, -1, -1)>>)>>)

\* ----------------------------------------------------------------- edit_path
\* Reversed with the reversal of line 82 left out
NotReversed(s) == s

\* reversed(path)
RECURSIVE Reversed(_)
Reversed(s) ==
    IF s = <<>> THEN <<>> ELSE Append(Reversed(Tail(s)), Head(s))

\* the while loop of edit_path from cell (i, j) with the operations appended
\* so far; the result is the exception raised ("none" when the loop ends)
\* and the list built
RECURSIVE Backtrack(_, _, _, _, _, _)
Backtrack(s1, s2, d, i, j, acc) ==
    IF i = -1 /\ j = -1 THEN [err |-> "none", path |-> acc]
    ELSE LET prev_i == Cell(d, i, j).prev_i
             prev_j == Cell(d, i, j).prev_j
         IN  IF prev_i = i - 1 /\ prev_j = j
             THEN Backtrack(s1, s2, d, prev_i, prev_j,
                            Append(acc, Operation(DELETE, prev_i, 0)))
             ELSE IF prev_i = i /\ prev_j = j - 1
             THEN IF ~IndexOK(s2, prev_j)
                  THEN [err |-> "IndexError", path |-> acc]
                  ELSE Backtrack(s1, s2, d, prev_i, prev_j,
                                 Append(acc, Operation(INSERT, prev_i, PyIndex(s2, prev_j))))
             ELSE IF prev_i = i - 1 /\ prev_j = j - 1
             THEN IF ~IndexOK(s1, prev_i) \/ ~IndexOK(s2, prev_j)
                  THEN [err |-> "IndexError", path |-> acc]
                  ELSE IF PyIndex(s1, prev_i) # PyIndex(s2, prev_j)
                  THEN Backtrack(s1, s2, d, prev_i, prev_j,
                                 Append(acc, Operation(REPLACE, prev_i, PyIndex(s2, j - 1))))
                  ELSE Backtrack(s1, s2, d, prev_i, prev_j, acc)
             ELSE Backtrack(s1, s2, d, prev_i, prev_j, acc)

\* edit_path(s1, s2): [err, path]; path is the returned sequence, empty when
\* an exception was raised
edit_path(s1, s2) ==
    LET r == Backtrack(s1, s2, levenstein_distance(s1, s2), Len(s1), Len(s2), <<>>)
    IN  IF r.err = "none" THEN [err |-> "none", path |-> Reversed(r.path)]
        ELSE [err |-> r.err, path |-> <<>>]

\* ------------------------------------------------------------ patch records
\* struct.pack('I', n): 4 bytes, least significant first; defined for
\* 0 <= n < 2^32 = 65536 * 65536 only
PackOK(n) == n >= 0 /\ n \div 65536 < 65536

Pack(n) == <<n % 256, (n \div 256) % 256, (n \div 65536) % 256, (n \div 16777216) % 256>>

\* struct.unpack('I', b)[0] for a 4-byte b
Unpack(b) == b[1] + 256 * b[2] + 65536 * b[3] + 16777216 * b[4]

\* bytes([edit.code, *struct.pack('I', edit.location), edit.new_byte])
EncodeOp(e) == <<e.code>> \o Pack(e.location) \o <<e.new_byte>>

\* the for loop of calculate_diff over ops, f holding the bytes written so
\* far: [err, data]
RECURSIVE WriteDiff(_, _)
WriteDiff(ops, f) ==
    IF ops = <<>> THEN [err |-> "none", data |-> f]
    ELSE IF ~PackOK(Head(ops).location) THEN [err |-> "struct.error", data |-> f]
    ELSE WriteDiff(Tail(ops), f \o EncodeOp(Head(ops)))

\* IsOpCode with the tag taken as a plain integer, never rejected
IsAnyByte(b) == b \in 0..255

\* OpCode(b) is defined for the three members of the enumeration
IsOpCode(b) == b \in {INSERT, DELETE, REPLACE}

\* the list comprehension of apply_patch over file_iter(patch_file, 6, True),
\* p the unread rest of the patch file and acc the operations built so far:
\* [err, edits]
RECURSIVE DecodePatch(_, _)
DecodePatch(p, acc) ==
    IF p = <<>> THEN [err |-> "none", edits |-> acc]
    ELSE IF Len(p) < 6 THEN [err |-> "AssertionError", edits |-> <<>>]
    ELSE LET edit_bytes == SubSeq(p, 1, 6)
         IN  IF ~IsOpCode(edit_bytes[1]) THEN [err |-> "ValueError", edits |-> <<>>]
             ELSE DecodePatch(SubSeq(p, 7, Len(p)),
                              Append(acc, Operation(edit_bytes[1],
                                                    Unpack(SubSeq(edit_bytes, 2, 5)),
                                                    edit_bytes[6])))

\* ------------------------------------------------------------------ actions
\* calculate_diff(old_f, new_f, diff_f), line 131: the diff file is opened for
\* writing (truncated), edit_path is computed and one record is written per
\* operation; an exception ends the program
CalculateDiff ==
    /\ pc = "start"
    /\ LET r == edit_path(old_data, new_data)
           w == WriteDiff(r.path, <<>>)
       IN  /\ distance' = levenstein_distance(old_data, new_data)
           /\ path' = r.path
           /\ IF r.err # "none"
              THEN diff' = <<>> /\ err' = r.err /\ pc' = "error"
              ELSE diff' = w.data /\ err' = w.err
                   /\ pc' = (IF w.err # "none" THEN "error" ELSE "apply")
    /\ UNCHANGED <<old_data, new_data, edits, data_i, edit_i, out>>

\* apply_patch up to the replay loop, lines 98-108: the output file is opened
\* for writing (truncated), the patch is decoded and the cursors are set
ApplyPatchDecode ==
    /\ pc = "apply"
    /\ LET r == DecodePatch(diff, <<>>)
       IN  /\ edits' = r.edits
           /\ err' = r.err
           /\ pc' = (IF r.err # "none" THEN "error" ELSE "replay")
    /\ out' = <<>>
    /\ data_i' = 0
    /\ edit_i' = 0
    /\ UNCHANGED <<old_data, new_data, distance, path, diff>>

\* the condition of the replay loop, line 110
LoopCond == data_i < Len(old_data) \/ edit_i < Len(edits)

\* one iteration of the replay loop, lines 111-124
ReplayStep ==
    /\ pc = "replay"
    /\ LoopCond
    /\ IF edit_i < Len(edits) /\ edits[edit_i + 1].location = data_i
       THEN LET edit == edits[edit_i + 1]
            IN  /\ out' = (IF edit.code \in {REPLACE, INSERT}
                           THEN Append(out, edit.new_byte) ELSE out)
                /\ data_i' = (IF edit.code \in {REPLACE, DELETE}
                              THEN data_i + 1 ELSE data_i)
                /\ edit_i' = edit_i + 1
       ELSE IF data_i < Len(old_data)
       THEN /\ out' = Append(out, old_data[data_i + 1])
            /\ data_i' = data_i + 1
            /\ edit_i' = edit_i
       ELSE UNCHANGED <<out, data_i, edit_i>>
    /\ UNCHANGED <<old_data, new_data, distance, path, diff, edits, pc, err>>

\* the replay loop ends and the files are closed
ReplayDone ==
    /\ pc = "replay"
    /\ ~LoopCond
    /\ pc' = "done"
    /\ UNCHANGED <<old_data, new_data, distance, path, diff, edits, data_i, edit_i, out, err>>

\* ----------------------------------------------------------- specifications
\* the driver, lines 127-132, on two arbitrary files
Init ==
    /\ old_data \in SeqsUpTo(Bytes, MaxLen)
    /\ new_data \in SeqsUpTo(Bytes, MaxLen)
    /\ distance = <<>>
    /\ path = <<>>
    /\ diff = <<>>
    /\ edits = <<>>
    /\ data_i = 0
    /\ edit_i = 0
    /\ out = <<>>
    /\ pc = "start"
    /\ err = "none"

Next == CalculateDiff \/ ApplyPatchDecode \/ ReplayStep \/ ReplayDone

Spec == Init /\ [][Next]_vars

\* apply_patch on an arbitrary original file and an arbitrary patch file:
\* up to MaxEdits records with any tag in PatchTags and any location up to
\* MaxLoc, followed by a truncated record of a length in TailLens
PatchRecords ==
    {EncodeOp(Operation(t, l, b)) : t \in PatchTags, l \in 0..MaxLoc, b \in PatchBytes}

RECURSIVE Concat(_)
Concat(ss) == IF ss = <<>> THEN <<>> ELSE Head(ss) \o Concat(Tail(ss))

ExternalPatches ==
    {Concat(rs) \o SubSeq(<<1, 0, 0, 0, 0>>, 1, k) :
        rs \in SeqsUpTo(PatchRecords, MaxEdits), k \in TailLens}

ApplyInit ==
    /\ old_data \in SeqsUpTo(Bytes, MaxOldLen)
    /\ new_data = <<>>
    /\ distance = <<>>
    /\ path = <<>>
    /\ diff \in ExternalPatches
    /\ edits = <<>>
    /\ data_i = 0
    /\ edit_i = 0
    /\ out = <<>>
    /\ pc = "apply"
    /\ err = "none"

ApplyNext == ApplyPatchDecode \/ ReplayStep \/ ReplayDone

ApplySpec == ApplyInit /\ [][ApplyNext]_vars

\* ------------------------------------------------------------------ helpers
TypeOK ==
    /\ pc \in {"start", "apply", "replay", "done", "error"}
    /\ err \in {"none", "IndexError", "struct.error", "AssertionError", "ValueError"}
    /\ data_i \in Nat /\ edit_i \in 0..Len(edits)
    /\ (pc = "error") = (err # "none")

\* the driver's round trip when calculate_diff raised nothing
RoundTripWhenDiffWritten == pc = "done" => out = new_data

\* edit_path was called and returned its sequence
EditPathReturned == pc # "start" /\ err # "IndexError"

\* 3 per Insert, 3 per Delete, 2 per Replace
RECURSIVE PathCost(_)
PathCost(ops) ==
    IF ops = <<>> THEN 0
    ELSE (IF Head(ops).code = REPLACE THEN 2 ELSE 3) + PathCost(Tail(ops))

Min3(a, b, c) ==
    IF a <= b /\ a <= c THEN a ELSE IF b <= c THEN b ELSE c

\* the patch length is not a multiple of 6, or a complete record has a tag
\* outside {0, 1, 2}
BadPatch(p) ==
    \/ Len(p) % 6 # 0
    \/ \E k \in 0..((Len(p) \div 6) - 1) : p[6 * k + 1] \notin {0, 1, 2}

\* ------------------------------------------------------------------- claims

\* C1: round trip. For every original A and target B, including empty ones
\* and ones whose last bytes differ, computing the edit path, encoding it,
\* decoding it and replaying it against A ends without error and the output
\* is exactly B.
C1_RoundTrip ==
    /\ pc # "error"
    /\ pc = "done" => out = new_data

\* C2: the total cost of the operations returned by edit_path(A, B) equals
\* the cost stored in the final cell distance[len(A)][len(B)].
C2_PathCostIsFinalCellCost ==
    EditPathReturned =>
        PathCost(path) = Cell(distance, Len(old_data), Len(new_data)).cost

\* C3: the replay loop terminates for every original and every decoded edit
\* list: no iteration leaves both data_i and edit_i unchanged, that is,
\* whenever the loop condition holds either the current edit is at the data
\* cursor or an original byte is left to copy (an unreachable edit being
\* reported as an error instead).
C3_ReplayAdvances ==
    (pc = "replay" /\ LoopCond) =>
        \/ edit_i < Len(edits) /\ edits[edit_i + 1].location = data_i
        \/ data_i < Len(old_data)

\* C4: the sequence returned by edit_path has non-decreasing locations.
C4_LocationsNonDecreasing ==
    \A k \in 1..(Len(path) - 1) : path[k].location <= path[k + 1].location

C4_Witness ==
    /\ pc = "done"
    /\ Len(path) >= 2
    /\ path[1].location >= 0
    /\ path[1].location < path[Len(path)].location

\* C5: edit_path([], B) returns exactly len(B) operations, all Insert, the
\* k-th carrying B[k].
C5_EmptyOriginal ==
    (pc # "start" /\ old_data = <<>>) =>
        /\ EditPathReturned
        /\ Len(path) = Len(new_data)
        /\ \A k \in 1..Len(path) :
              path[k].code = INSERT /\ path[k].new_byte = new_data[k]

\* C6: edit_path(A, []) returns exactly len(A) operations, all Delete, one
\* for each position 0..len(A)-1 of A.
C6_EmptyTarget ==
    (pc # "start" /\ new_data = <<>>) =>
        /\ EditPathReturned
        /\ Len(path) = Len(old_data)
        /\ \A k \in 1..Len(path) :
              path[k].code = DELETE /\ path[k].location = k - 1

\* C7: edit_path(A, A) returns an empty sequence for every A, the empty
\* sequence included.
C7_Identity ==
    (pc # "start" /\ old_data = new_data) =>
        EditPathReturned /\ path = <<>>

\* C8: when the patch length is not a multiple of 6 or a record has a tag
\* outside {0, 1, 2}, apply_patch ends in an error at decoding: no edit is
\* replayed and no output byte is written.
C8_BadPatchRejected ==
    (BadPatch(diff) /\ pc # "apply") =>
        /\ pc = "error"
        /\ err \in {"AssertionError", "ValueError"}
        /\ edit_i = 0
        /\ out = <<>>

C8_Witness ==
    /\ pc = "error"
    /\ BadPatch(diff)
    /\ Len(diff) >= 6

\* C9: every cell (i, j) with i >= 1 and j >= 1 of the table holds the least
\* of cost(i-1, j) + 3, cost(i, j-1) + 3 and cost(i-1, j-1) + d, d = 0 when
\* A[i-1] = B[j-1] and 2 otherwise.
C9_CellIsMinimum ==
    pc # "start" =>
        \A i \in 1..Len(old_data), j \in 1..Len(new_data) :
            Cell(distance, i, j).cost =
                Min3(Cell(distance, i - 1, j).cost + 3,
                     Cell(distance, i, j - 1).cost + 3,
                     Cell(distance, i - 1, j - 1).cost
                         + (IF old_data[i] = new_data[j] THEN 0 ELSE 2))

C9_Witness ==
    /\ pc # "start"
    /\ \E i \in 1..Len(old_data), j \in 1..Len(new_data) : old_data[i] = new_data[j]
    /\ \E i \in 1..Len(old_data), j \in 1..Len(new_data) : old_data[i] # new_data[j]

\* C10: every operation returned by edit_path(A, B) has a location in
\* 0..len(A) for Insert and in 0..len(A)-1 for Delete and Replace; the step
\* taken at cell (0, 0) emits nothing.
C10_LocationsValid ==
    \A k \in 1..Len(path) :
        /\ path[k].location >= 0
        /\ path[k].location <= (IF path[k].code = INSERT
                                THEN Len(old_data) ELSE Len(old_data) - 1)

====
